---------------------------- MODULE Spec2Model ----------------------------
(***************************************************************************)
(* A model of the property graph of models.py (and its copy in             *)
(* p1/graph.py): the JSON property bag of every entity (JSONModel), the    *)
(* relationship resolver Node.get_related_nodes, and the traversals        *)
(* Query.refers (direct and recursive) and Table.refered.                  *)
(*                                                                         *)
(* Python values are tagged records, so that None, strings and dicts can   *)
(* be compared with one another.                                           *)
(***************************************************************************)
EXTENDS Naturals, FiniteSets, Sequences, TLC

(***************************************************************************)
(* Bounds of the model.                                                    *)
(***************************************************************************)
NumEntities == 2    \* entities whose property bag is exercised
MaxNodes == 3       \* nodes of a graph that is traversed
MaxEdges == 2       \* edges of a graph that is traversed
CycleEdges == 3     \* edges of a graph that holds a cycle of Queries and a Table
ResNodes == 2       \* nodes of a graph the resolver is called on
ResEdges == 2       \* edges of a graph the resolver is called on

VARIABLES
    _properties,          \* entity -> the dict self._properties refers to (Unset before the first read)
    _properties_storage,  \* entity -> the column value: None or the dict
    written,              \* history: entity -> key -> the last value given to set(), and whether set() was called never, once or more often (n = 0, 1, 2)
    pret,                 \* the last PropertyBag call and what it returned
    type,                 \* node -> its class ("Query", "Table")
    id,                   \* node -> its primary key: None until saved
    edges,                \* edge -> [cls, from_node, to_node]
    edges_from,           \* node -> the edges whose from_node it is (relationship collection)
    edges_to,             \* node -> the edges whose to_node it is (relationship collection)
    ret,                  \* the last resolver call and what it returned
    stack,                \* the frames of the running refers(recursive=True) call, innermost first
    visited,              \* the visited set shared by the frames of the running call
    call                  \* the running or finished top-level traversal call

bagVars == <<_properties, _properties_storage, written, pret>>
graphVars == <<type, id, edges, edges_from, edges_to>>
callVars == <<ret, stack, visited, call>>
vars == <<bagVars, graphVars, callVars>>

(***************************************************************************)
(* Python values.                                                          *)
(***************************************************************************)
None == [tag |-> "None"]
Unset == [tag |-> "unset"]
Str(s) == [tag |-> "str", v |-> s]
Dict(items) == [tag |-> "dict", items |-> items]
EmptyDict == Dict(<<>>)

Keys == {"sql", "description"}
Vals == {Str("a"), Str("b")}
Entities == 1..NumEntities

\* dict.get(key): the value, or None when the key is absent.
DictGet(d, key) ==
    IF key \in DOMAIN d.items THEN d.items[key] ELSE None

\* d[key] = value: insert or overwrite.
DictSetItem(d, key, value) ==
    Dict([k \in (DOMAIN d.items) \cup {key} |->
            IF k = key THEN value ELSE d.items[k]])

(***************************************************************************)
(* JSONModel.                                                              *)
(***************************************************************************)
\* A getter that starts from an empty dict on every read.
properties_Reset(storage) == EmptyDict

\* The properties getter: the dict it assigns to self._properties and returns.
properties(storage) ==
    IF storage = None THEN EmptyDict ELSE storage

\* set() without its last line: only a dict the storage already held changes.
SyncStorage_Skip(storage, mutated) ==
    IF storage = None THEN None ELSE mutated

\* self._properties_storage = self._properties, after self.properties[key] = value
\* mutated the dict in place.  When the storage already held a dict, it is that
\* same object, so the mutation shows in it before the assignment.
SyncStorage(storage, mutated) == mutated

\* JSONModel.get(key)
Get(e, key) ==
    LET p == properties(_properties_storage[e]) IN
    /\ _properties' = [_properties EXCEPT ![e] = p]
    /\ pret' = [op |-> "get", e |-> e, key |-> key, value |-> DictGet(p, key)]
    /\ UNCHANGED <<_properties_storage, written, graphVars, callVars>>

\* JSONModel.set(key, value)
Set(e, key, value) ==
    /\ LET p == properties(_properties_storage[e])
           mutated == DictSetItem(p, key, value)
       IN /\ _properties' = [_properties EXCEPT ![e] = mutated]
          /\ _properties_storage' =
                [_properties_storage EXCEPT
                    ![e] = SyncStorage(_properties_storage[e], mutated)]
    /\ written' = [written EXCEPT ![e][key] = [value |-> value, n |-> IF @.n = 0 THEN 1 ELSE 2]]
    /\ pret' = [op |-> "set", e |-> e, key |-> key, value |-> value]
    /\ UNCHANGED <<graphVars, callVars>>

BagInit ==
    /\ _properties = [e \in Entities |-> Unset]
    /\ _properties_storage = [e \in Entities |-> None]
    /\ written = [e \in Entities |-> [k \in Keys |-> [value |-> None, n |-> 0]]]
    /\ pret = [op |-> "none"]

\* No graph, and no call on one.
GraphIdle ==
    /\ type = <<>>
    /\ id = <<>>
    /\ edges = <<>>
    /\ edges_from = <<>>
    /\ edges_to = <<>>
    /\ ret = [op |-> "none"]
    /\ stack = <<>>
    /\ visited = {}
    /\ call = [pc |-> "idle"]

BagNext ==
    \/ \E e \in Entities, key \in Keys : Get(e, key)
    \/ \E e \in Entities, key \in Keys, value \in Vals : Set(e, key, value)

\* Fresh entities, and no graph.
Init_Bag == BagInit /\ GraphIdle

BagSpec == Init_Bag /\ [][BagNext]_vars

(***************************************************************************)
(* Claims about the property bag.                                          *)
(***************************************************************************)
\* The mapping the set() calls made so far on e amount to.
WrittenDict(e) ==
    Dict([k \in {x \in Keys : written[e][x].n > 0} |-> written[e][k].value])

\* C7: get(k) returns the value of the most recent set(k, v) on the entity, and
\* None (absent) when k was never set on it; it never fails.
C7_GetReturnsLastSet ==
    /\ pret.op = "get" => pret.value = written[pret.e][pret.key].value
    /\ \A e \in Entities, k \in Keys :
          DictGet(properties(_properties_storage[e]), k) = written[e][k].value

\* A get returned the value of a key that was set twice, the other key of the
\* same entity was never set, and the other entity is fresh.
C7_Witness ==
    /\ pret.op = "get"
    /\ pret.value \in Vals
    /\ written[pret.e][pret.key].n = 2
    /\ \E k \in Keys : written[pret.e][k].n = 0
    /\ \E e \in Entities : \A k \in Keys : written[e][k].n = 0

\* C8: after every set(key, value) the column value _properties_storage holds
\* the whole mapping: key -> value and every key set earlier.
C8_StorageHoldsMapping ==
    /\ pret.op = "set" =>
          /\ _properties_storage[pret.e] # None
          /\ DictGet(_properties_storage[pret.e], pret.key) = pret.value
    /\ \A e \in Entities :
          (\E k \in Keys : written[e][k].n > 0) =>
              /\ _properties_storage[e] = WrittenDict(e)
              /\ _properties_storage[e] = _properties[e]

\* The first set on a fresh entity has just been made (its storage was unset).
C8_WitnessFirstSet ==
    /\ pret.op = "set"
    /\ written[pret.e][pret.key].n = 1
    /\ \A k \in Keys \ {pret.key} : written[pret.e][k].n = 0
    /\ _properties_storage[pret.e] = Dict([k \in {pret.key} |-> pret.value])

(***************************************************************************)
(* The graph.  A node is an index of type, an edge an index of edges; the  *)
(* index stands for the identity of the Python object.                     *)
(***************************************************************************)
Int(i) == [tag |-> "int", v |-> i]
Class(name) == [tag |-> "class", name |-> name]

NodeClasses == {"Query", "Table"}
EdgeClasses == {"Refer", "Edge"}
Nodes == DOMAIN type
Edges == DOMAIN edges
Queries == {n \in Nodes : type[n] = "Query"}
Tables == {n \in Nodes : type[n] = "Table"}

\* isinstance(node, cls): Query and Table are subclasses of Node.
IsInstance(n, cls) ==
    cls.name = "Node" \/ cls.name = type[n]

\* The place of an edge in the order in which Init lists the edges of a graph:
\* two graphs that differ only in which edge object was made first are one graph.
EdgeRank(e, n) ==
    ((IF e.cls = "Refer" THEN 0 ELSE 1) * n + (e.from_node - 1)) * n + (e.to_node - 1)

\* A graph of n nodes and m edges as it stands after the constructors
\* Query(...), Table(...), Refer(from_node=a, to_node=b) and
\* Edge(from_node=a, to_node=b): back_populates puts every edge into the
\* edges_from of its from_node and the edges_to of its to_node.  Up to the
\* naming of the node objects, the first k nodes are the Queries and the others
\* the Tables.  The first sq Queries and the first st Tables were made before the
\* last session.commit() and have their ids; the others have id None.
IsGraph(n, m, k, sq, st, es) ==
    /\ \A i \in 1..m, j \in 1..m :
          i < j => EdgeRank(es[i], n) <= EdgeRank(es[j], n)
    /\ type = [i \in 1..n |-> IF i <= k THEN "Query" ELSE "Table"]
    /\ id = [i \in 1..n |->
                IF i <= sq \/ (k < i /\ i <= k + st) THEN Int(i) ELSE None]
    /\ edges = es
    /\ edges_from = [i \in 1..n |-> {e \in 1..m : es[e].from_node = i}]
    /\ edges_to = [i \in 1..n |-> {e \in 1..m : es[e].to_node = i}]

EdgeRecords(n) == [cls : EdgeClasses, from_node : 1..n, to_node : 1..n]

\* The graphs of at most maxNodes nodes and maxEdges edges.
Graphs(maxNodes, maxEdges) ==
    \E n \in 1..maxNodes, m \in 0..maxEdges :
    \E k \in 0..n :
    \E sq \in 0..k, st \in 0..(n - k) :
    \E es \in [1..m -> EdgeRecords(n)] :
        IsGraph(n, m, k, sq, st, es)

\* The graphs that are traversed.
GraphInit == Graphs(MaxNodes, MaxEdges)

\* The graphs that are traversed, with room for A -> B -> A and B -> T.
CycleInit == Graphs(MaxNodes, CycleEdges)

\* The graphs the resolver is called on: nothing committed yet
\* (p1/graph.py), or everything (database.py).
ResolverInit ==
    /\ Graphs(ResNodes, ResEdges)
    /\ (\A n \in DOMAIN id : id[n] = None) \/ (\A n \in DOMAIN id : id[n] # None)

\* No call has been made on the graph.
CallIdle ==
    /\ ret = [op |-> "none"]
    /\ stack = <<>>
    /\ visited = {}
    /\ call = [pc |-> "idle"]

\* No entity whose property bag is exercised.
BagIdle ==
    /\ _properties = <<>>
    /\ _properties_storage = <<>>
    /\ written = <<>>
    /\ pret = [op |-> "none"]

(***************************************************************************)
(* Node.get_related_nodes                                                  *)
(***************************************************************************)
Raise(exc) == [tag |-> "raise", exc |-> exc]
SetOf(items) == [tag |-> "set", items |-> items]

Directions == {"out", "in", "sideways"}
RelatedTypes == {None, Class("Query"), Class("Table"), Class("Node")}

\* A chain that ends in a plain else: every other direction is read as 'in'.
ValidDirection_Any(direction) == TRUE

\* The if/elif chain on direction: anything but 'out' and 'in' raises.
ValidDirection(direction) == direction \in {"out", "in"}

\* edges = self.edges_from / self.edges_to
DirectionEdges(n, direction) ==
    IF direction = "out" THEN edges_from[n] ELSE edges_to[n]

\* The neighbour taken as edge.to_node in both directions.
Neighbour_ToNode(e, direction) == edges[e].to_node

\* edge.to_node if direction == "out" else edge.from_node
Neighbour(e, direction) ==
    IF direction = "out" THEN edges[e].to_node ELSE edges[e].from_node

\* The condition without the test of the edge class.
EdgeMatches_AnyClass(e, direction, related_type, edge_type) ==
    related_type = None \/ IsInstance(Neighbour(e, direction), related_type)

\* The condition of the set comprehension.
EdgeMatches(e, direction, related_type, edge_type) ==
    /\ edges[e].cls = edge_type
    /\ related_type = None \/ IsInstance(Neighbour(e, direction), related_type)

get_related_nodes(n, direction, related_type, edge_type) ==
    IF ~ValidDirection(direction)
    THEN Raise("ValueError")
    ELSE SetOf({Neighbour(e, direction) :
                  e \in {x \in DirectionEdges(n, direction) :
                            EdgeMatches(x, direction, related_type, edge_type)}})

\* Query.refers(recursive=False)
refers_direct(q) == get_related_nodes(q, "out", Class("Table"), "Refer")

\* Table.refered()
refered(t) == get_related_nodes(t, "in", Class("Query"), "Refer")

CallGetRelatedNodes(n, direction, related_type, edge_type) ==
    /\ ret.op = "none"
    /\ ret' = [op |-> "get_related_nodes", self |-> n, direction |-> direction,
               related_type |-> related_type, edge_type |-> edge_type,
               value |-> get_related_nodes(n, direction, related_type, edge_type)]
    /\ UNCHANGED <<stack, visited, call, graphVars, bagVars>>

CallRefers(q) ==
    /\ ret.op = "none"
    /\ ret' = [op |-> "refers", self |-> q, value |-> refers_direct(q)]
    /\ UNCHANGED <<stack, visited, call, graphVars, bagVars>>

CallRefered(t) ==
    /\ ret.op = "none"
    /\ ret' = [op |-> "refered", self |-> t, value |-> refered(t)]
    /\ UNCHANGED <<stack, visited, call, graphVars, bagVars>>

ResolverNext ==
    \/ \E n \in Nodes, direction \in Directions, related_type \in RelatedTypes,
          edge_type \in EdgeClasses :
          CallGetRelatedNodes(n, direction, related_type, edge_type)
    \/ \E q \in Queries : CallRefers(q)
    \/ \E t \in Tables : CallRefered(t)

\* A graph, on which no call has been made yet.
Init_Resolver == ResolverInit /\ CallIdle /\ BagIdle

ResolverSpec == Init_Resolver /\ [][ResolverNext]_vars

(***************************************************************************)
(* Claims about the resolver.                                              *)
(***************************************************************************)
\* The neighbours the contract of get_related_nodes asks for.
ExpectedRelated(n, direction, related_type, edge_type) ==
    IF direction = "out"
    THEN {m \in Nodes : \E e \in edges_from[n] :
            /\ edges[e].to_node = m
            /\ edges[e].cls = edge_type
            /\ related_type = None \/ IsInstance(m, related_type)}
    ELSE {m \in Nodes : \E e \in edges_to[n] :
            /\ edges[e].from_node = m
            /\ edges[e].cls = edge_type
            /\ related_type = None \/ IsInstance(m, related_type)}

\* C4: a Table t is in q.refers() exactly when the Query q is in t.refered().
C4_InverseConsistency ==
    /\ ret.op = "none" =>
          \A q \in Queries, t \in Tables :
              (t \in refers_direct(q).items) <=> (q \in refered(t).items)
    /\ ret.op = "refers" =>
          \A t \in Tables : (t \in ret.value.items) <=> (ret.self \in refered(t).items)
    /\ ret.op = "refered" =>
          \A q \in Queries : (q \in ret.value.items) <=> (ret.self \in refers_direct(q).items)

\* t.refered() returned a Query that refers to t, on a graph that also holds
\* an edge of another class from t back to that Query.
C4_Witness ==
    /\ ret.op = "refered"
    /\ \E q \in Queries :
          /\ q \in ret.value.items
          /\ ret.self \in refers_direct(q).items
          /\ \E e \in edges_from[ret.self] :
                edges[e].to_node = q /\ edges[e].cls = "Edge"

\* C5: with a direction other than 'out' and 'in', get_related_nodes raises
\* ValueError on every node and with every other argument, and returns no set.
C5_InvalidDirectionRaises ==
    /\ ret.op = "none" =>
          \A n \in Nodes, direction \in Directions \ {"out", "in"},
             related_type \in RelatedTypes, edge_type \in EdgeClasses :
              get_related_nodes(n, direction, related_type, edge_type) = Raise("ValueError")
    /\ (ret.op = "get_related_nodes" /\ ret.direction \notin {"out", "in"}) =>
          ret.value = Raise("ValueError")

\* get_related_nodes(direction="sideways") was called on a node that has an
\* outgoing and an incoming Refer edge, and raised.
C5_Witness ==
    /\ ret.op = "get_related_nodes"
    /\ ret.direction = "sideways"
    /\ ret.edge_type = "Refer"
    /\ ret.related_type = None
    /\ \E e \in edges_from[ret.self] : edges[e].cls = "Refer"
    /\ \E e \in edges_to[ret.self] : edges[e].cls = "Refer"
    /\ ret.value.tag = "raise"

\* C6: with a valid direction, get_related_nodes returns exactly the set of the
\* neighbours over an edge of the requested class that are of related_type (any
\* node when related_type is None): one entry per neighbour, the empty set when
\* there is none.
C6_RelatedNodesExact ==
    /\ ret.op = "none" =>
          \A n \in Nodes, direction \in {"out", "in"},
             related_type \in RelatedTypes, edge_type \in EdgeClasses :
              get_related_nodes(n, direction, related_type, edge_type)
                = SetOf(ExpectedRelated(n, direction, related_type, edge_type))
    /\ (ret.op = "get_related_nodes" /\ ret.direction \in {"out", "in"}) =>
          ret.value = SetOf(ExpectedRelated(ret.self, ret.direction,
                                            ret.related_type, ret.edge_type))

\* Two qualifying edges lead to the same neighbour, and the result holds it once.
C6_Witness ==
    /\ ret.op = "get_related_nodes"
    /\ ret.direction = "in"
    /\ ret.related_type = Class("Query")
    /\ \E m \in Nodes :
          /\ ret.value = SetOf({m})
          /\ Cardinality({e \in edges_to[ret.self] :
                            edges[e].from_node = m /\ edges[e].cls = ret.edge_type}) = 2

(***************************************************************************)
(* Query.refers(recursive=True), one step per edge scanned.  A frame is    *)
(* one activation of refers: the edges of self.edges_from still to scan    *)
(* and its local set tables.  The for loop takes the edges in any order.   *)
(***************************************************************************)
Frame(q) == [self |-> q, todo |-> edges_from[q], tables |-> {}]

\* to_node.id not in visited
NotVisited(n) == id[n] \notin visited

\* tables = ... in place of tables.update(...).
MergeTables_Assign(own, nested) == nested

\* tables.add(to_node) and tables.update(...)
MergeTables(own, nested) == own \cup nested

\* q.refers(recursive=True), called without a visited argument:
\* visited = set(); visited.add(self.id); tables = set().
CallRefersRecursive(q) ==
    /\ call.pc = "idle"
    /\ visited' = {id[q]}
    /\ stack' = <<Frame(q)>>
    /\ call' = [pc |-> "running", self |-> q, entered |-> {q}, skipped |-> {}]
    /\ UNCHANGED <<ret, graphVars, bagVars>>

\* isinstance(to_node, Table): tables.add(to_node)
ScanTable(e) ==
    /\ stack # <<>>
    /\ e \in Head(stack).todo
    /\ IsInstance(edges[e].to_node, Class("Table"))
    /\ stack' = <<[Head(stack) EXCEPT
                     !.todo = @ \ {e},
                     !.tables = MergeTables(@, {edges[e].to_node})]>>
                 \o Tail(stack)
    /\ UNCHANGED <<ret, visited, call, graphVars, bagVars>>

\* isinstance(to_node, Query) and to_node.id not in visited:
\* to_node.refers(recursive=True, visited=visited) is entered, and adds its id.
Recurse(e) ==
    /\ stack # <<>>
    /\ e \in Head(stack).todo
    /\ ~IsInstance(edges[e].to_node, Class("Table"))
    /\ IsInstance(edges[e].to_node, Class("Query"))
    /\ NotVisited(edges[e].to_node)
    /\ stack' = <<Frame(edges[e].to_node), [Head(stack) EXCEPT !.todo = @ \ {e}]>>
                 \o Tail(stack)
    /\ visited' = visited \cup {id[edges[e].to_node]}
    /\ call' = [call EXCEPT !.entered = @ \cup {edges[e].to_node}]
    /\ UNCHANGED <<ret, graphVars, bagVars>>

\* Neither branch is taken: the edge contributes nothing.
Skip(e) ==
    /\ stack # <<>>
    /\ e \in Head(stack).todo
    /\ ~IsInstance(edges[e].to_node, Class("Table"))
    /\ ~(IsInstance(edges[e].to_node, Class("Query")) /\ NotVisited(edges[e].to_node))
    /\ stack' = <<[Head(stack) EXCEPT !.todo = @ \ {e}]>> \o Tail(stack)
    /\ call' = [call EXCEPT !.skipped = @ \cup {edges[e].to_node}]
    /\ UNCHANGED <<ret, visited, graphVars, bagVars>>

\* return tables, to the caller's tables.update(...)
ReturnNested ==
    /\ Len(stack) > 1
    /\ Head(stack).todo = {}
    /\ stack' = <<[stack[2] EXCEPT !.tables = MergeTables(@, Head(stack).tables)]>>
                 \o Tail(Tail(stack))
    /\ UNCHANGED <<ret, visited, call, graphVars, bagVars>>

\* return tables, to the top-level caller
ReturnTop ==
    /\ Len(stack) = 1
    /\ Head(stack).todo = {}
    /\ stack' = <<>>
    /\ ret' = [op |-> "refers_recursive", self |-> call.self,
               value |-> SetOf(Head(stack).tables)]
    /\ call' = [call EXCEPT !.pc = "done"]
    /\ UNCHANGED <<visited, graphVars, bagVars>>

TravNext ==
    \/ \E q \in Queries : CallRefersRecursive(q)
    \/ \E e \in Edges : ScanTable(e)
    \/ \E e \in Edges : Recurse(e)
    \/ \E e \in Edges : Skip(e)
    \/ ReturnNested
    \/ ReturnTop

\* A graph, on which no call has been made yet.
Init == GraphInit /\ CallIdle /\ BagIdle

Spec == Init /\ [][TravNext]_vars

\* The call is synchronous and single-threaded: once made it runs on.
FairSpec == Spec /\ WF_vars(TravNext)

\* The same traversal on the graphs of up to CycleEdges edges.
Init_Cycle == CycleInit /\ CallIdle /\ BagIdle

CycleSpec == Init_Cycle /\ [][TravNext]_vars

FairCycleSpec == CycleSpec /\ WF_vars(TravNext)

(***************************************************************************)
(* Claims about the traversal.                                             *)
(***************************************************************************)
\* The nodes a Refer edge leads to from n.
ReferSucc(n) ==
    {edges[e].to_node : e \in {x \in Edges : edges[x].from_node = n /\ edges[x].cls = "Refer"}}

\* The Queries reachable from the Queries of S by chains of Refer edges.
RECURSIVE ReferClosure(_)
ReferClosure(S) ==
    LET more == S \cup {m \in Queries : \E n \in S : m \in ReferSucc(n)}
    IN IF more = S THEN S ELSE ReferClosure(more)

\* The Tables at the end of a chain of Refer edges Query -> ... -> Table from q.
ReachableTables(q) ==
    {t \in Tables : \E n \in ReferClosure({q}) : t \in ReferSucc(n)}

\* C1: a top-level q.refers(recursive=True) returns every Table reachable from q
\* by a chain of Refer edges through Queries.
C1_ReturnsEveryReachableTable ==
    ret.op = "refers_recursive" =>
        ReachableTables(ret.self) \subseteq ret.value.items

\* The graph is the cycle a -> b -> a with b -> t, and nothing else.
IsCycleExample(a, b, t) ==
    /\ a \in Queries /\ b \in Queries /\ t \in Tables /\ a # b
    /\ Cardinality(Edges) = 3
    /\ \E e \in edges_from[a] : edges[e] = [cls |-> "Refer", from_node |-> a, to_node |-> b]
    /\ \E e \in edges_from[b] : edges[e] = [cls |-> "Refer", from_node |-> b, to_node |-> a]
    /\ \E e \in edges_from[b] : edges[e] = [cls |-> "Refer", from_node |-> b, to_node |-> t]

\* C2 (the result): in the cycle A -> B -> A with B -> T, A.refers(recursive=True)
\* returns {T}.
C2_CycleReturnsTable ==
    \A a \in Nodes, b \in Nodes, t \in Nodes :
        (IsCycleExample(a, b, t) /\ ret.op = "refers_recursive" /\ ret.self = a) =>
            ret.value = SetOf({t})

\* C2 (termination): every refers(recursive=True) call that is made returns,
\* also on graphs with cycles of Queries and with a Query that has an edge to
\* itself.
C2_Terminates == (call.pc = "running") ~> (call.pc = "done")

\* C3: the direct result is contained in the transitive result.
C3_DirectWithinTransitive ==
    ret.op = "refers_recursive" =>
        refers_direct(ret.self).items \subseteq ret.value.items

\* A transitive call has returned for a Query that refers to a Table directly
\* and to another Query, which the call entered.
C3_Witness ==
    /\ ret.op = "refers_recursive"
    /\ refers_direct(ret.self).items # {}
    /\ Cardinality(call.entered) = 2
    /\ ret.value.items # {}

\* C9: every Table that refers(recursive=True) returns is reachable from self
\* by a chain made only of Refer edges.
C9_OnlyReferEdges ==
    ret.op = "refers_recursive" =>
        ret.value.items \subseteq ReachableTables(ret.self)

\* C10: a Query is skipped only when that same Query has been entered in this
\* traversal.
C10_SkippedWereEntered ==
    call.pc # "idle" => call.skipped \subseteq call.entered

=============================================================================
